---- MODULE Spec2Model ----
(***************************************************************************)
(* Preset store and rewrite command of the "Rewrite This" extension        *)
(* (src/src/rewrite-this.ts) and the preset administration flow that calls *)
(* the store.  The persisted state is the LocalStorage keys user_presets,  *)
(* current_preset_id and has_used_claude_api_key; the system clipboard is  *)
(* the other state that outlives a command.  Every command is one action,  *)
(* because commands run one at a time; a LocalStorage call rejects only    *)
(* where an action says so.  SpecOverlap alone lets two instances run      *)
(* store functions at once, each split at its suspension between the read  *)
(* and the write of user_presets.                                          *)
(***************************************************************************)
EXTENDS Integers, Sequences, FiniteSets, TLC

VARIABLES user_presets, current_preset_id, now,
          has_used_claude_api_key, clipboard, onboardingShown, inflight

vars == <<user_presets, current_preset_id, now,
          has_used_claude_api_key, clipboard, onboardingShown, inflight>>

\* what the rewrite command may change and the store commands never touch
rewriteVars == <<has_used_claude_api_key, clipboard, onboardingShown>>

\* the command instances that may run a store function at the same time
Slots == {1, 2}

\* inflight[p] when instance p is running no store function
Idle ==
  [pc |-> "idle", op |-> "none", presetId |-> "", name |-> "", prompt |-> "",
   t |-> 0, snapshot |-> <<>>, mode |-> "none", outcome |-> "none", wroteLast |-> FALSE]

-----------------------------------------------------------------------------
(* Bounds of the model. *)

\* largest number of records kept in user_presets
MaxRecords == 3

\* largest value Date.now() takes
MaxClock == 2

-----------------------------------------------------------------------------
(* Values. *)

\* what LocalStorage.getItem returns for a key that is not stored
Undefined == "<undefined>"

\* JavaScript truthiness of a stored string (used by `x || y`)
Truthy(v) == v # Undefined /\ v # ""

DEFAULT_PRESETS ==
  << [id |-> "conversational",
      name |-> "Conversational & Human",
      prompt |-> "Rewrite this with correct spelling and grammar. Aim to have a conversational and human tone of voice."],
     [id |-> "formal",
      name |-> "Formal & Professional",
      prompt |-> "Rewrite this with correct spelling and grammar. Use a formal, professional tone suitable for business or academic contexts."],
     [id |-> "concise",
      name |-> "Concise & Clear",
      prompt |-> "Rewrite this to be more concise and clear. Remove unnecessary words and simplify complex sentences while maintaining the original meaning."],
     [id |-> "grammar",
      name |-> "Fix Grammar Only",
      prompt |-> "Fix only the spelling and grammar in this text. Don't change the style, tone, or word choice unless necessary for grammatical correctness."] >>

\* DEFAULT_PRESETS.some((p) => p.id === presetId)
IsDefaultId(presetId) == \E i \in 1..Len(DEFAULT_PRESETS) : DEFAULT_PRESETS[i].id = presetId

\* the (name, prompt) pairs the add form submits
AddInputs == { <<"Email", "Make it sound like an email">> }

\* the (name, prompt) pairs the edit form submits
EditInputs == { <<"Formal v2", "New prompt">> }

-----------------------------------------------------------------------------
(* String and array primitives of the language, as the code uses them. *)

\* String.prototype.startsWith
startsWith(s, p) == Len(s) >= Len(p) /\ SubSeq(s, 1, Len(p)) = p

\* index of the first occurrence of pat in s, 0 when there is none
indexOf(s, pat) ==
  LET hits == { i \in 1..(Len(s) - Len(pat) + 1) : SubSeq(s, i, i + Len(pat) - 1) = pat }
  IN  IF hits = {} THEN 0 ELSE CHOOSE i \in hits : \A j \in hits : i <= j

\* String.prototype.replace with a string pattern: the first occurrence only
replace(s, pat, rep) ==
  LET i == indexOf(s, pat)
  IN  IF i = 0 THEN s
      ELSE SubSeq(s, 1, i - 1) \o rep \o SubSeq(s, i + Len(pat), Len(s))

\* Array.prototype.find / findIndex with the test (p) => p.id === id:
\* the 1-based position of the first such element, 0 when there is none
findIndex(seq, id) ==
  LET hits == { i \in 1..Len(seq) : seq[i].id = id }
  IN  IF hits = {} THEN 0 ELSE CHOOSE i \in hits : \A j \in hits : i <= j

\* Array.prototype.includes
includes(seq, x) == \E i \in 1..Len(seq) : seq[i] = x

-----------------------------------------------------------------------------
(* Resolution of the visible preset list. *)

\* getAllPresets with the shadow copies never applied
getAllPresets_NoShadow(userPresets) ==
  LET markerRecords == SelectSeq(userPresets, LAMBDA p : startsWith(p.id, "deleted_"))
      deletionMarkers ==
        [i \in 1..Len(markerRecords) |-> replace(markerRecords[i].id, "deleted_", "")]
      regularUserPresets ==
        SelectSeq(userPresets,
                  LAMBDA p : ~startsWith(p.id, "deleted_") /\ ~startsWith(p.id, "shadow_"))
  IN  SelectSeq(DEFAULT_PRESETS, LAMBDA p : ~includes(deletionMarkers, p.id))
        \o regularUserPresets

\* getAllPresets with a shadow copy bringing a deleted built-in back
getAllPresets_ShadowRevives(userPresets) ==
  LET markerRecords == SelectSeq(userPresets, LAMBDA p : startsWith(p.id, "deleted_"))
      deletionMarkers ==
        [i \in 1..Len(markerRecords) |-> replace(markerRecords[i].id, "deleted_", "")]
      shadowCopies == SelectSeq(userPresets, LAMBDA p : startsWith(p.id, "shadow_"))
      regularUserPresets ==
        SelectSeq(userPresets,
                  LAMBDA p : ~startsWith(p.id, "deleted_") /\ ~startsWith(p.id, "shadow_"))
      shadowOf(d) == findIndex(shadowCopies, "shadow_" \o d.id)
      activeDefaultPresets ==
        SelectSeq(DEFAULT_PRESETS,
                  LAMBDA p : ~includes(deletionMarkers, p.id) \/ shadowOf(p) > 0)
      applyShadow(d) ==
        IF shadowOf(d) > 0
          THEN [id |-> d.id, name |-> shadowCopies[shadowOf(d)].name,
                prompt |-> shadowCopies[shadowOf(d)].prompt]
          ELSE d
  IN  [i \in 1..Len(activeDefaultPresets) |-> applyShadow(activeDefaultPresets[i])]
        \o regularUserPresets

getAllPresets(userPresets) ==
  LET markerRecords == SelectSeq(userPresets, LAMBDA p : startsWith(p.id, "deleted_"))
      deletionMarkers ==
        [i \in 1..Len(markerRecords) |-> replace(markerRecords[i].id, "deleted_", "")]
      shadowCopies == SelectSeq(userPresets, LAMBDA p : startsWith(p.id, "shadow_"))
      regularUserPresets ==
        SelectSeq(userPresets,
                  LAMBDA p : ~startsWith(p.id, "deleted_") /\ ~startsWith(p.id, "shadow_"))
      activeDefaultPresets ==
        SelectSeq(DEFAULT_PRESETS, LAMBDA p : ~includes(deletionMarkers, p.id))
      applyShadow(defaultPreset) ==
        LET k == findIndex(shadowCopies, "shadow_" \o defaultPreset.id)
        IN  IF k > 0
              THEN [id |-> defaultPreset.id,
                    name |-> shadowCopies[k].name,
                    prompt |-> shadowCopies[k].prompt]
              ELSE defaultPreset
      finalDefaultPresets ==
        [i \in 1..Len(activeDefaultPresets) |-> applyShadow(activeDefaultPresets[i])]
  IN  finalDefaultPresets \o regularUserPresets

listPresets == getAllPresets(user_presets)

-----------------------------------------------------------------------------
(* The store operations as functions of the persisted state: each takes    *)
(* the stored collection and pointer and yields the stored collection and  *)
(* pointer it leaves behind, with the notice it ends on.                   *)

Result(up, cur, outcome) ==
  [user_presets |-> up, current_preset_id |-> cur, outcome |-> outcome]

\* the pointer repair falling back to the first built-in, deleted or not
repairPointer_FirstDefault(up, cur, presetId) ==
  IF cur = presetId THEN DEFAULT_PRESETS[1].id ELSE cur

\* the pointer repair shared by both branches of deletePreset
repairPointer(up, cur, presetId) ==
  IF cur = presetId
    THEN LET allPresets == getAllPresets(up)
         IN  IF Len(allPresets) > 0 THEN allPresets[1].id ELSE Undefined
    ELSE cur

\* addPreset without the write of current_preset_id
addPreset_KeepsPointer(up, cur, name, prompt, t) ==
  Result(Append(up, [id |-> "user_" \o ToString(t), name |-> name, prompt |-> prompt]),
         cur, "added")

addPreset(up, cur, name, prompt, t) ==
  LET newPreset == [id |-> "user_" \o ToString(t), name |-> name, prompt |-> prompt]
  IN  Result(Append(up, newPreset), newPreset.id, "added")

\* editPreset pushing a new shadow every time, an existing one or not
editPreset_AlwaysPushesShadow(up, cur, presetId, name, prompt) ==
  LET allPresets == getAllPresets(up)
      presetToEdit == findIndex(allPresets, presetId)
  IN  IF presetToEdit = 0 THEN Result(up, cur, "not_found")
      ELSE IF IsDefaultId(presetId)
        THEN Result(Append(up, [id |-> "shadow_" \o presetId, name |-> name, prompt |-> prompt]),
                    cur, "updated")
        ELSE Result([i \in 1..Len(up) |->
                       IF up[i].id = presetId
                         THEN [up[i] EXCEPT !.name = name, !.prompt = prompt]
                         ELSE up[i]],
                    cur, "updated")

\* editPreset rewriting a user preset as remove-then-push instead of in place
editPreset_MovesToEnd(up, cur, presetId, name, prompt) ==
  LET allPresets == getAllPresets(up)
      presetToEdit == findIndex(allPresets, presetId)
  IN  IF presetToEdit = 0 THEN Result(up, cur, "not_found")
      ELSE IF IsDefaultId(presetId)
        THEN LET shadowIndex == findIndex(up, "shadow_" \o presetId)
                 shadow == [id |-> "shadow_" \o presetId, name |-> name, prompt |-> prompt]
             IN  IF shadowIndex > 0
                   THEN Result([up EXCEPT ![shadowIndex] = shadow], cur, "updated")
                   ELSE Result(Append(up, shadow), cur, "updated")
        ELSE Result(Append(SelectSeq(up, LAMBDA p : p.id # presetId),
                           [id |-> presetId, name |-> name, prompt |-> prompt]),
                    cur, "updated")

editPreset(up, cur, presetId, name, prompt) ==
  LET allPresets == getAllPresets(up)
      presetToEdit == findIndex(allPresets, presetId)
  IN  IF presetToEdit = 0 THEN Result(up, cur, "not_found")
      ELSE IF IsDefaultId(presetId)
        THEN LET shadowIndex == findIndex(up, "shadow_" \o presetId)
                 shadow == [id |-> "shadow_" \o presetId, name |-> name, prompt |-> prompt]
             IN  IF shadowIndex > 0
                   THEN Result([up EXCEPT ![shadowIndex] = shadow], cur, "updated")
                   ELSE Result(Append(up, shadow), cur, "updated")
        ELSE Result([i \in 1..Len(up) |->
                       IF up[i].id = presetId
                         THEN [up[i] EXCEPT !.name = name, !.prompt = prompt]
                         ELSE up[i]],
                    cur, "updated")

\* deletePreset taking a second delete of a built-in as an undelete
deletePreset_Undelete(up, cur, presetId) ==
  IF IsDefaultId(presetId)
    THEN LET marker == "deleted_" \o presetId
             marked == IF findIndex(up, marker) > 0
                         THEN SelectSeq(up, LAMBDA p : p.id # marker)
                         ELSE Append(up, [id |-> marker, name |-> "DELETED", prompt |-> "DELETED"])
         IN  Result(marked, repairPointer(marked, cur, presetId), "deleted")
    ELSE LET presetToDelete == findIndex(up, presetId)
             updatedPresets == SelectSeq(up, LAMBDA p : p.id # presetId)
         IN  IF presetToDelete = 0 THEN Result(up, cur, "not_found")
             ELSE Result(updatedPresets, repairPointer(updatedPresets, cur, presetId), "deleted")

deletePreset(up, cur, presetId) ==
  IF IsDefaultId(presetId)
    THEN LET marked == Append(up, [id |-> "deleted_" \o presetId,
                                   name |-> "DELETED", prompt |-> "DELETED"])
         IN  Result(marked, repairPointer(marked, cur, presetId), "deleted")
    ELSE LET presetToDelete == findIndex(up, presetId)
             updatedPresets == SelectSeq(up, LAMBDA p : p.id # presetId)
         IN  IF presetToDelete = 0 THEN Result(up, cur, "not_found")
             ELSE Result(updatedPresets, repairPointer(updatedPresets, cur, presetId), "deleted")

\* addPreset when its k-th LocalStorage call rejects and the catch block takes
\* over.  The calls, in order: getItem(user_presets), setItem(user_presets),
\* setItem(current_preset_id).
addPresetFailing(up, cur, name, prompt, t, k) ==
  LET done == addPreset(up, cur, name, prompt, t)
  IN  IF k > 3 THEN done
      ELSE IF k <= 2 THEN Result(up, cur, "error")
      ELSE Result(done.user_presets, cur, "error")

\* deletePreset when its k-th LocalStorage call rejects and the catch block
\* takes over.  The calls, in order: getItem(user_presets),
\* setItem(user_presets), getItem(current_preset_id) and, only when the
\* deleted preset is the selected one, the getItem inside getAllPresets and
\* the setItem/removeItem of current_preset_id.  A Not-Found run makes the
\* first call only.  A call the run never makes cannot reject.
deletePresetFailing(up, cur, presetId, k) ==
  LET done == deletePreset(up, cur, presetId)
      calls == IF done.outcome = "not_found" THEN 1
               ELSE IF cur = presetId THEN 5 ELSE 3
  IN  IF k > calls THEN done
      ELSE IF k <= 2 THEN Result(up, cur, "error")
      ELSE Result(done.user_presets, cur, "error")

togglePreset(up, cur) ==
  LET allPresets == getAllPresets(up)
      currentPresetId == IF Truthy(cur) THEN cur ELSE allPresets[1].id
      \* findIndex is 0-based in the code and -1 when absent; currentIndex is that plus one
      currentIndex == findIndex(allPresets, currentPresetId)
      nextIndex == (currentIndex % Len(allPresets)) + 1
  IN  IF Len(allPresets) = 0 THEN Result(up, cur, "no_presets")
      ELSE Result(up, allPresets[nextIndex].id, "toggled")

-----------------------------------------------------------------------------
(* The rewrite command as a function of the state it finds (the stored     *)
(* presets and pointer, the first-use flag, the clipboard) and of what its *)
(* surroundings do during the invocation (the preferences, the foreground  *)
(* application, the endpoint).  `run` collects what the invocation did.    *)
(* Strings are the source's without their non-ASCII glyphs (the check mark *)
(* of the HUD texts, the dash shown in the system message).                *)

\* what getSelectedText returns from its catch block
Null == "<null>"

\* the copy keystroke arriving where nothing is selected: the clipboard stays
NothingSelected == "<nothing selected>"

Toast(style, title, message) ==
  [kind |-> "toast", style |-> style, title |-> title, message |-> message]

HUD(text) == [kind |-> "hud", style |-> "", title |-> text, message |-> ""]

OnboardingNotice ==
  HUD("You're ready to rewrite text with Claude! Select text and press Option+R.")

ManualPasteNotice ==
  HUD("Text rewritten and copied to clipboard (press CMD+V to paste)")

\* an invocation that has not done anything yet
Started(flag, clip) ==
  [state |-> "ResolvingConfig", has_used |-> flag, clipboard |-> clip,
   notices |-> <<>>, requests |-> <<>>, commits |-> <<>>, keystrokes |-> <<>>,
   clipboardReads |-> 0, clipboardWrites |-> <<>>, storageWrites |-> <<>>]

\* the catch block of command
Catch(run, message) ==
  [run EXCEPT !.state = "Failed",
              !.notices = Append(@, Toast("failure", "Error rewriting text", message))]

\* String.prototype.trim
trim(s) ==
  LET kept == { i \in 1..Len(s) : SubSeq(s, i, i) \notin {" ", "\n", "\t"} }
      first == CHOOSE i \in kept : \A j \in kept : i <= j
      last == CHOOSE i \in kept : \A j \in kept : i >= j
  IN  IF kept = {} THEN "" ELSE SubSeq(s, first, last)

getModelDisplayName(modelId) ==
  IF ~Truthy(modelId) THEN "Claude 3.5 Sonnet v2"
  ELSE CASE modelId = "claude-3-7-sonnet-20250219" -> "Claude 3.7 Sonnet"
         [] modelId = "claude-3-5-sonnet-20241022" -> "Claude 3.5 Sonnet v2"
         [] modelId = "claude-3-5-sonnet-20240620" -> "Claude 3.5 Sonnet"
         [] OTHER -> modelId

\* getSelectedText: pbpaste, the copy keystroke, pbpaste again, the restoring
\* Clipboard.copy.  capture.failAt names the one of these four that rejects
\* (0: none); a rejected keystroke or write does not take effect.
getSelectedText(clip, capture) ==
  LET copied == IF capture.selection = NothingSelected THEN clip ELSE capture.selection
      k == capture.failAt
  IN  [text |-> IF k = 0 THEN copied ELSE Null,
       clipboard |-> IF k \in {3, 4} THEN copied ELSE clip,
       keystrokes |-> IF k \in {1, 2} THEN <<>> ELSE <<"c">>,
       clipboardReads |-> IF k = 1 THEN 0 ELSE IF k \in {2, 3} THEN 1 ELSE 2,
       clipboardWrites |-> IF k = 0 THEN <<clip>> ELSE <<>>]

\* the test without the trim
isNoSelection_NoTrim(selectedText) ==
  selectedText = Null \/ selectedText = ""

\* !selectedText || selectedText.trim() === ""
isNoSelection(selectedText) ==
  selectedText = Null \/ selectedText = "" \/ trim(selectedText) = ""

\* the system message of the request
systemMessage(avoidEmDashes) ==
  "You are a helpful text rewriting assistant. Your job is to take the provided text and rewrite it as instructed while preserving the original line breaks, paragraph structure, emojis, and formatting"
  \o (IF avoidEmDashes
        THEN ". Do not use em dashes in your rewrite. Use other punctuation like commas, parentheses, or colons instead"
        ELSE "")
  \o ". You should return ONLY the rewritten text, with no additional commentary."

\* the text taken from a parsed 2xx body
extractText(data) ==
  IF data.hasContent /\ Len(data.blocks) > 0 /\ data.blocks[1].type = "text"
    THEN data.blocks[1].text
    ELSE "No text returned from Claude"

\* the paste inside the outer try only: its failure reaches the catch block
commitReplacement_PasteFailureThrows(in, run, rewrittenText, presetName) ==
  LET invoked == [run EXCEPT !.state = "ApplyingResult",
                             !.commits = Append(@, rewrittenText)]
  IN  IF ~in.copyOk THEN Catch(invoked, "Clipboard.copy failed")
      ELSE LET copied == [invoked EXCEPT !.clipboard = rewrittenText,
                                         !.clipboardWrites = Append(@, rewrittenText)]
           IN  IF in.pasteOk
                 THEN [copied EXCEPT
                         !.state = "Done",
                         !.keystrokes = Append(@, "v"),
                         !.notices = Append(@, HUD("Text rewritten using \"" \o presetName \o "\" style"))]
                 ELSE Catch(copied, "Command failed: osascript")

\* lines 479-489: Clipboard.copy of the rewritten text, then the paste keystroke
commitReplacement(in, run, rewrittenText, presetName) ==
  LET invoked == [run EXCEPT !.state = "ApplyingResult",
                             !.commits = Append(@, rewrittenText)]
  IN  IF ~in.copyOk THEN Catch(invoked, "Clipboard.copy failed")
      ELSE LET copied == [invoked EXCEPT !.clipboard = rewrittenText,
                                         !.clipboardWrites = Append(@, rewrittenText)]
           IN  IF in.pasteOk
                 THEN [copied EXCEPT
                         !.state = "Done",
                         !.keystrokes = Append(@, "v"),
                         !.notices = Append(@, HUD("Text rewritten using \"" \o presetName \o "\" style"))]
                 ELSE [copied EXCEPT
                         !.state = "Done",
                         !.notices = Append(@, ManualPasteNotice)]

\* lines 466-489: what command does with the response of the endpoint
applyResponse(in, run, presetName) ==
  LET body == in.response.body
  IN  IF ~in.response.ok
        THEN IF body.json = "invalid"
               THEN Catch(run, "invalid json response body")
             ELSE IF body.json = "null"
               THEN Catch(run, "Cannot read properties of null (reading 'error')")
             ELSE Catch(run, "Claude API error: "
                               \o (IF body.hasError /\ Truthy(body.errorMessage)
                                     THEN body.errorMessage
                                     ELSE in.response.statusText))
      ELSE IF body.json = "invalid"
        THEN Catch(run, "invalid json response body")
      ELSE IF body.json = "null"
        THEN Catch(run, "Cannot read properties of null (reading 'content')")
      ELSE commitReplacement(in, run, extractText(body), presetName)

\* lines 422-464: the prompt of the active preset, the progress toast, the request
callModel(up, cur, in, run, selectedText) ==
  LET selectedModel == IF Truthy(in.prefs.claudeModel) THEN in.prefs.claudeModel
                       ELSE "claude-3-5-sonnet-20241022"
      avoidEmDashes == IF in.prefs.avoidEmDashes = Undefined THEN TRUE
                       ELSE in.prefs.avoidEmDashes = "true"
      allPresets == getAllPresets(up)
      currentPresetId == IF Truthy(cur) THEN cur
                         ELSE IF Len(allPresets) > 0 THEN allPresets[1].id
                         ELSE "conversational"
      byId == findIndex(allPresets, currentPresetId)
      \* position of currentPreset in allPresets; 0 when currentPreset is undefined
      currentPreset == IF byId > 0 THEN byId ELSE IF Len(allPresets) > 0 THEN 1 ELSE 0
  IN  IF currentPreset = 0
        THEN Catch(run, "Cannot read properties of undefined (reading 'prompt')")
      ELSE
        LET preset == allPresets[currentPreset]
            request == [model |-> selectedModel,
                        system |-> systemMessage(avoidEmDashes),
                        content |-> preset.prompt \o " Here's the text to rewrite:\n\n"
                                      \o selectedText]
            calling == [run EXCEPT
                          !.state = "CallingModel",
                          !.notices = Append(@, Toast("animated",
                                         "Rewriting with \"" \o preset.name \o "\" style...",
                                         "Using " \o getModelDisplayName(selectedModel))),
                          !.requests = Append(@, request)]
        IN  IF in.fetch = "rejects"
              THEN Catch(calling, "request to https://api.anthropic.com/v1/messages failed")
              ELSE applyResponse(in, calling, preset.name)

\* lines 409-420: the capture and the no-selection notice
captureSelection(up, cur, in, run) ==
  LET cap == getSelectedText(run.clipboard, in.capture)
      captured == [run EXCEPT !.state = "CapturingSelection",
                              !.clipboard = cap.clipboard,
                              !.keystrokes = @ \o cap.keystrokes,
                              !.clipboardReads = @ + cap.clipboardReads,
                              !.clipboardWrites = @ \o cap.clipboardWrites]
  IN  IF isNoSelection(cap.text)
        THEN [captured EXCEPT
                !.state = "NoSelection",
                !.notices = Append(@, Toast("failure", "No Text Selected",
                                            "Please select some text before pressing Option+R"))]
        ELSE callModel(up, cur, in, captured, cap.text)

\* the gate without the LocalStorage.setItem
firstRunGate_NoRecord(up, cur, in, run) ==
  IF ~Truthy(run.has_used)
    THEN [run EXCEPT
            !.state = "AwaitingFirstUse",
            !.notices = Append(@, OnboardingNotice)]
    ELSE captureSelection(up, cur, in, run)

\* lines 399-407: the first-use gate
firstRunGate(up, cur, in, run) ==
  IF ~Truthy(run.has_used)
    THEN [run EXCEPT
            !.state = "AwaitingFirstUse",
            !.has_used = "true",
            !.storageWrites = Append(@, "has_used_claude_api_key"),
            !.notices = Append(@, OnboardingNotice)]
    ELSE captureSelection(up, cur, in, run)

\* the first-use gate ahead of the API key check
command_GateBeforeKeyCheck(up, cur, flag, clip, in) ==
  LET run == Started(flag, clip)
  IN  IF ~Truthy(flag) THEN firstRunGate(up, cur, in, run)
      ELSE IF ~Truthy(in.prefs.claudeApiKey)
        THEN [run EXCEPT
                !.state = "Failed",
                !.notices = Append(@, Toast("failure", "Claude API Key Missing",
                                            "Please add your Claude API Key in extension preferences"))]
        ELSE firstRunGate(up, cur, in, run)

\* the default export.  Lines 379-388 only read the store; what they compute
\* is first used at line 423 and is computed there, in callModel.
command(up, cur, flag, clip, in) ==
  LET run == Started(flag, clip)
  IN  IF ~Truthy(in.prefs.claudeApiKey)
        THEN [run EXCEPT
                !.state = "Failed",
                !.notices = Append(@, Toast("failure", "Claude API Key Missing",
                                            "Please add your Claude API Key in extension preferences"))]
        ELSE firstRunGate(up, cur, in, run)

-----------------------------------------------------------------------------
(* What the surroundings of one invocation may do. *)

\* promptPreset and customPrompt are declared in Preferences; no invocation
\* considered sets them
Prefs(key, model, avoid) ==
  [claudeApiKey |-> key, claudeModel |-> model, avoidEmDashes |-> avoid,
   promptPreset |-> Undefined, customPrompt |-> Undefined]

KeyPrefs == Prefs("sk-ant-key", Undefined, Undefined)

OtherPrefs == Prefs("sk-ant-key", "claude-3-7-sonnet-20250219", "false")

NoKeyPrefs == Prefs("", Undefined, Undefined)

GoodCapture == [selection |-> "hello   world", failAt |-> 0]

\* every way the capture may go: each step rejecting, and each kind of selection
CaptureInputs ==
  { [selection |-> "hello   world", failAt |-> k] : k \in 0..4 }
    \cup { [selection |-> t, failAt |-> 0] : t \in {NothingSelected, "", "  \n "} }

Body(json, hasError, errorMessage, hasContent, blocks) ==
  [json |-> json, hasError |-> hasError, errorMessage |-> errorMessage,
   hasContent |-> hasContent, blocks |-> blocks]

TextBlock == [type |-> "text", text |-> "Hello, world."]

ToolBlock == [type |-> "tool_use", text |-> ""]

\* bodies of non-2xx responses: {error: {message}}, {error: {}}, {}, null, not JSON
ErrorBodies ==
  { Body("object", TRUE, "Overloaded", FALSE, <<>>),
    Body("object", TRUE, Undefined, FALSE, <<>>),
    Body("object", FALSE, Undefined, FALSE, <<>>),
    Body("null", FALSE, Undefined, FALSE, <<>>),
    Body("invalid", FALSE, Undefined, FALSE, <<>>) }

\* bodies of 2xx responses: every shape of content, no content, a number, null, not JSON
SuccessBodies ==
  { Body("object", FALSE, Undefined, TRUE, <<TextBlock>>),
    Body("object", FALSE, Undefined, TRUE, <<ToolBlock, TextBlock>>),
    Body("object", FALSE, Undefined, TRUE, <<ToolBlock>>),
    Body("object", FALSE, Undefined, TRUE, <<>>),
    Body("object", FALSE, Undefined, FALSE, <<>>),
    Body("number", FALSE, Undefined, FALSE, <<>>),
    Body("null", FALSE, Undefined, FALSE, <<>>),
    Body("invalid", FALSE, Undefined, FALSE, <<>>) }

ErrorResponses == { [ok |-> FALSE, statusText |-> "Bad Gateway", body |-> b] : b \in ErrorBodies }

SuccessResponses == { [ok |-> TRUE, statusText |-> "OK", body |-> b] : b \in SuccessBodies }

GoodResponse ==
  [ok |-> TRUE, statusText |-> "OK", body |-> Body("object", FALSE, Undefined, TRUE, <<TextBlock>>)]

Scenario(prefs, capture, fetch, response, copyOk, pasteOk) ==
  [prefs |-> prefs, capture |-> capture, fetch |-> fetch, response |-> response,
   copyOk |-> copyOk, pasteOk |-> pasteOk]

\* the invocations considered: what stays unused in an invocation is held fixed
CommandInputs ==
  { Scenario(p, GoodCapture, "responds", GoodResponse, TRUE, TRUE) : p \in {NoKeyPrefs, OtherPrefs} }
    \cup { Scenario(KeyPrefs, c, "responds", GoodResponse, TRUE, TRUE) : c \in CaptureInputs }
    \cup { Scenario(KeyPrefs, GoodCapture, "rejects", GoodResponse, TRUE, TRUE) }
    \cup { Scenario(KeyPrefs, GoodCapture, "responds", r, TRUE, TRUE) : r \in ErrorResponses }
    \cup { Scenario(KeyPrefs, GoodCapture, "responds", r, c, v) :
             r \in SuccessResponses, c \in BOOLEAN, v \in BOOLEAN }

-----------------------------------------------------------------------------
(* The commands.  user_presets and current_preset_id are the two           *)
(* LocalStorage keys; now is the last value Date.now() returned.           *)

DefaultIds == { DEFAULT_PRESETS[i].id : i \in 1..Len(DEFAULT_PRESETS) }

\* ids a caller may pass: the built-ins, every stored id, and one that names nothing
IdInputs == DefaultIds \cup { user_presets[i].id : i \in 1..Len(user_presets) } \cup { "user_0" }

\* the readings Date.now() may give next: it never runs backwards
ClockInputs == now..MaxClock

Commit(r) ==
  /\ Len(r.user_presets) <= MaxRecords
  /\ user_presets' = r.user_presets
  /\ current_preset_id' = r.current_preset_id
  /\ UNCHANGED <<rewriteVars, inflight>>

\* a fresh installation: nothing stored, the user's own text on the clipboard
Init ==
  /\ user_presets = <<>>
  /\ current_preset_id = Undefined
  /\ now = 1
  /\ has_used_claude_api_key = Undefined
  /\ clipboard = "earlier copy"
  /\ onboardingShown = 0
  /\ inflight = [p \in Slots |-> Idle]

AddPreset ==
  \E in \in AddInputs, t \in ClockInputs :
    /\ Commit(addPreset(user_presets, current_preset_id, in[1], in[2], t))
    /\ now' = t

HandleDuplicate ==
  \E i \in 1..Len(listPresets), t \in ClockInputs :
    /\ Commit(addPreset(user_presets, current_preset_id,
                        listPresets[i].name \o " (Copy)", listPresets[i].prompt, t))
    /\ now' = t

EditPreset ==
  \E presetId \in IdInputs, in \in EditInputs :
    /\ Commit(editPreset(user_presets, current_preset_id, presetId, in[1], in[2]))
    /\ UNCHANGED now

DeletePreset ==
  \E presetId \in IdInputs :
    /\ Commit(deletePreset(user_presets, current_preset_id, presetId))
    /\ UNCHANGED now

TogglePreset ==
  /\ Commit(togglePreset(user_presets, current_preset_id))
  /\ UNCHANGED now

\* the store functions and the toggle command
Next ==
  \/ AddPreset
  \/ EditPreset
  \/ DeletePreset
  \/ TogglePreset

Spec == Init /\ [][Next]_vars

\* the same with the administration list's Duplicate action
NextAdmin ==
  \/ AddPreset
  \/ HandleDuplicate
  \/ EditPreset
  \/ DeletePreset
  \/ TogglePreset

SpecAdmin == Init /\ [][NextAdmin]_vars

DeletePresetFails ==
  \E presetId \in IdInputs, k \in 1..5 :
    /\ Commit(deletePresetFailing(user_presets, current_preset_id, presetId, k))
    /\ UNCHANGED now

\* the store functions and the toggle command, where a LocalStorage call of
\* deletePreset may reject
NextFailing ==
  \/ AddPreset
  \/ EditPreset
  \/ DeletePreset
  \/ DeletePresetFails
  \/ TogglePreset

SpecFailing == Init /\ [][NextFailing]_vars

\* how many of the notices of a run are the first-use welcome
Onboardings(run) ==
  Cardinality({ i \in 1..Len(run.notices) : run.notices[i] = OnboardingNotice })

RewriteCommand ==
  \E in \in CommandInputs :
    LET run == command(user_presets, current_preset_id, has_used_claude_api_key, clipboard, in)
    IN  /\ has_used_claude_api_key' = run.has_used
        /\ clipboard' = run.clipboard
        /\ onboardingShown' = onboardingShown + Onboardings(run)
        /\ UNCHANGED <<user_presets, current_preset_id, now, inflight>>

StoreCommit(r) ==
  /\ user_presets' = r.user_presets
  /\ current_preset_id' = r.current_preset_id
  /\ UNCHANGED <<now, has_used_claude_api_key, clipboard, onboardingShown, inflight>>

\* handleDelete of the preset list: the presets offered for deletion are the
\* listed ones, so a built-in gets one tombstone at most
StoreDeletePreset ==
  \E i \in 1..Len(listPresets) :
    StoreCommit(deletePreset(user_presets, current_preset_id, listPresets[i].id))

StoreTogglePreset ==
  StoreCommit(togglePreset(user_presets, current_preset_id))

\* the rewrite command, with presets deleted and toggled between invocations
NextRewrite ==
  \/ RewriteCommand
  \/ StoreDeletePreset
  \/ StoreTogglePreset

SpecRewrite == Init /\ [][NextRewrite]_vars

-----------------------------------------------------------------------------
(* Two command instances running store functions that may overlap.  A store *)
(* function is taken in two steps, with the other instance free to run in   *)
(* between: its reads of user_presets up to where it has computed the new   *)
(* collection (Date.now() included), and its setItem of the collection with *)
(* the pointer update that follows it.  Instance 2 starts after instance 1  *)
(* has started.                                                             *)

\* the store function an instance is running, applied to collection up
Mutation(m, up, cur) ==
  CASE m.op = "add" -> addPreset(up, cur, m.name, m.prompt, m.t)
    [] m.op = "edit" -> editPreset(up, cur, m.presetId, m.name, m.prompt)
    [] m.op = "delete" -> deletePreset(up, cur, m.presetId)

\* the calls the preset forms and the preset list make: add with the form's
\* input, edit and delete of a listed preset
MutationInputs ==
  { [Idle EXCEPT !.op = "add", !.name = in[1], !.prompt = in[2], !.t = t] :
      in \in AddInputs, t \in ClockInputs }
    \cup { [Idle EXCEPT !.op = "edit", !.presetId = listPresets[i].id,
                        !.name = in[1], !.prompt = in[2]] :
             i \in 1..Len(listPresets), in \in EditInputs }
    \cup { [Idle EXCEPT !.op = "delete", !.presetId = listPresets[i].id] :
             i \in 1..Len(listPresets) }

\* instance p reads user_presets; mode tells whether the other instance had
\* written by then ("after") or had read and not yet written ("overlaps").
\* The collections are kept below MaxRecords here, inflight holding copies.
BeginMutation(p) ==
  /\ inflight[p].pc = "idle"
  /\ p = 2 => inflight[1].pc # "idle"
  /\ \E m \in MutationInputs :
       /\ Len(Mutation(m, user_presets, current_preset_id).user_presets) < MaxRecords
       /\ inflight' = [inflight EXCEPT ![p] =
            [m EXCEPT !.pc = "read",
                      !.snapshot = user_presets,
                      !.mode = IF p = 1 THEN "first"
                               ELSE IF inflight[1].pc = "read" THEN "overlaps"
                               ELSE "after"]]
       /\ now' = IF m.op = "add" THEN m.t ELSE now
  /\ UNCHANGED <<user_presets, current_preset_id, rewriteVars>>

\* the write going by what is stored at the time of the write
WriteBack_Rereads(p) ==
  /\ inflight[p].pc = "read"
  /\ LET r == Mutation(inflight[p], user_presets, current_preset_id)
     IN  /\ IF r.outcome = "not_found"
              THEN UNCHANGED <<user_presets, current_preset_id>>
              ELSE /\ user_presets' = r.user_presets
                   /\ current_preset_id' = r.current_preset_id
         /\ inflight' = [inflight EXCEPT ![p] =
              [@ EXCEPT !.pc = "done", !.outcome = r.outcome,
                        !.wroteLast = \E q \in Slots \ {p} : inflight[q].pc = "done"]]
  /\ UNCHANGED <<now, rewriteVars>>

\* instance p writes the collection it computed from what it read, then
\* sets or repairs the pointer, which it reads only now
WriteBack(p) ==
  /\ inflight[p].pc = "read"
  /\ LET r == Mutation(inflight[p], inflight[p].snapshot, current_preset_id)
     IN  /\ IF r.outcome = "not_found"
              THEN UNCHANGED <<user_presets, current_preset_id>>
              ELSE /\ user_presets' = r.user_presets
                   /\ current_preset_id' = r.current_preset_id
         /\ inflight' = [inflight EXCEPT ![p] =
              [@ EXCEPT !.pc = "done", !.outcome = r.outcome,
                        !.wroteLast = \E q \in Slots \ {p} : inflight[q].pc = "done"]]
  /\ UNCHANGED <<now, rewriteVars>>

\* both instances have returned; the next two start
Settle ==
  /\ \A p \in Slots : inflight[p].pc = "done"
  /\ inflight' = [p \in Slots |-> Idle]
  /\ UNCHANGED <<user_presets, current_preset_id, now, rewriteVars>>

NextOverlap ==
  \/ \E p \in Slots : BeginMutation(p)
  \/ \E p \in Slots : WriteBack(p)
  \/ Settle

SpecOverlap == Init /\ [][NextOverlap]_vars

-----------------------------------------------------------------------------
(* Every command, one at a time: the store functions, the duplicate action, *)
(* the toggle command and the rewrite command.                               *)

\* the rewrite command with its surroundings at their plainest: no key, or
\* a key with the selection captured, the answer a text block, copy and paste fine
PlainInputs ==
  { Scenario(p, GoodCapture, "responds", GoodResponse, TRUE, TRUE) : p \in {NoKeyPrefs, KeyPrefs} }

RewritePlain ==
  \E in \in PlainInputs :
    LET run == command(user_presets, current_preset_id, has_used_claude_api_key, clipboard, in)
    IN  /\ has_used_claude_api_key' = run.has_used
        /\ clipboard' = run.clipboard
        /\ onboardingShown' = onboardingShown + Onboardings(run)
        /\ UNCHANGED <<user_presets, current_preset_id, now, inflight>>

NextSequential ==
  \/ NextAdmin
  \/ RewritePlain

SpecSequential == Init /\ [][NextSequential]_vars

TypeOK ==
  /\ Len(user_presets) <= MaxRecords + Len(DEFAULT_PRESETS)
  /\ \A p \in Slots : inflight[p].pc \in {"idle", "read", "done"}
  /\ now \in 1..MaxClock
  /\ has_used_claude_api_key \in {Undefined, "true"}
  /\ onboardingShown \in 0..1

-----------------------------------------------------------------------------
(* Vocabulary of the properties: the three kinds of stored record, told    *)
(* apart by their ids.                                                     *)

Records(up) == { up[i] : i \in 1..Len(up) }

HasTombstone(up, b) == \E r \in Records(up) : r.id = "deleted_" \o b

HasShadow(up, b) == \E r \in Records(up) : r.id = "shadow_" \o b

IsUserRecord(r) == ~startsWith(r.id, "shadow_") /\ ~startsWith(r.id, "deleted_")

UserIds(up) == { r.id : r \in { x \in Records(up) : IsUserRecord(x) } }

Ids(list) == { list[i].id : i \in 1..Len(list) }

\* The resolution the data model describes: the built-ins in declaration
\* order without the tombstoned ones, each under its own id with the name and
\* prompt of its shadow record when it has one, then the user records in
\* stored order.
ReferenceResolution(up) ==
  LET visible == SelectSeq(DEFAULT_PRESETS, LAMBDA d : ~HasTombstone(up, d.id))
      shadowRecord(d) == CHOOSE r \in Records(up) : r.id = "shadow_" \o d.id
      shown(d) == IF HasShadow(up, d.id)
                    THEN [id |-> d.id, name |-> shadowRecord(d).name,
                          prompt |-> shadowRecord(d).prompt]
                    ELSE d
  IN  [i \in 1..Len(visible) |-> shown(visible[i])] \o SelectSeq(up, IsUserRecord)

-----------------------------------------------------------------------------
(* Properties of the resolved list. *)

\* C1: whatever is stored, listPresets() is the reference resolution of the
\* built-ins and the stored records: visible built-ins in declaration order,
\* shadowed ones under their built-in id with the shadow's name and prompt,
\* then the user records in stored order; an empty store resolves to exactly
\* the four built-ins.
C1_ListIsReferenceResolution ==
  /\ listPresets = ReferenceResolution(user_presets)
  /\ user_presets = <<>> => listPresets = DEFAULT_PRESETS

\* a store holding a tombstone, a shadow of a visible built-in and a user record
C1_Witness ==
  /\ \E b \in DefaultIds : HasTombstone(user_presets, b)
  /\ \E b \in DefaultIds : HasShadow(user_presets, b) /\ ~HasTombstone(user_presets, b)
  /\ UserIds(user_presets) # {}

\* C2: a built-in with a stored tombstone is absent from listPresets(),
\* with or without a shadow for it.
C2_TombstoneSuppresses ==
  \A b \in DefaultIds : HasTombstone(user_presets, b) => b \notin Ids(listPresets)

\* a built-in was edited and then deleted: its shadow and its tombstone are both stored
C2_Witness ==
  \E b \in DefaultIds :
    \E i, j \in 1..Len(user_presets) :
      /\ i < j
      /\ user_presets[i].id = "shadow_" \o b
      /\ user_presets[j].id = "deleted_" \o b

\* C3: deleting a built-in twice resolves to the same list as deleting it once.
C3_DeleteTwiceSameList ==
  \A b \in DefaultIds :
    LET once == deletePreset(user_presets, current_preset_id, b)
        twice == deletePreset(once.user_presets, once.current_preset_id, b)
    IN  getAllPresets(twice.user_presets) = getAllPresets(once.user_presets)

\* a built-in has been deleted twice: two tombstones for it are stored
C3_Witness ==
  \E b \in DefaultIds :
    Cardinality({ i \in 1..Len(user_presets) : user_presets[i].id = "deleted_" \o b }) = 2

\* C4: deleting a built-in that already has a tombstone changes neither the
\* stored collection nor the selection pointer.
C4_SecondDeleteNoEffect ==
  \A b \in DefaultIds :
    HasTombstone(user_presets, b) =>
      LET r == deletePreset(user_presets, current_preset_id, b)
      IN  /\ r.user_presets = user_presets
          /\ r.current_preset_id = current_preset_id

-----------------------------------------------------------------------------
(* Properties of addPreset. *)

\* C5: after addPreset(name, prompt) the resolved list is the old one with one
\* entry more at its end; that entry has the id user_<timestamp> and the given
\* name and prompt, and current_preset_id is its id.
C5_AddAppendsAndSelects ==
  \A in \in AddInputs, t \in ClockInputs :
    LET r == addPreset(user_presets, current_preset_id, in[1], in[2], t)
        old == listPresets
        new == getAllPresets(r.user_presets)
    IN  /\ r.outcome = "added"
        /\ Len(new) = Len(old) + 1
        /\ SubSeq(new, 1, Len(old)) = old
        /\ new[Len(new)] = [id |-> "user_" \o ToString(t), name |-> in[1], prompt |-> in[2]]
        /\ startsWith(new[Len(new)].id, "user_")
        /\ r.current_preset_id = new[Len(new)].id

\* addPreset has run: the last stored record is a user preset and it is selected
C5_Witness ==
  /\ Len(user_presets) > 1
  /\ startsWith(user_presets[Len(user_presets)].id, "user_")
  /\ current_preset_id = user_presets[Len(user_presets)].id
  /\ listPresets[Len(listPresets)] = user_presets[Len(user_presets)]

\* C6: the ids of the entries of listPresets() are pairwise distinct in every
\* state add, edit, delete and duplicate calls reach, the clock never running
\* backwards.
C6_ListIdsDistinct ==
  \A i, j \in 1..Len(listPresets) : i # j => listPresets[i].id # listPresets[j].id

-----------------------------------------------------------------------------
(* Properties of editPreset. *)

ShadowPositions(up, b) == { i \in 1..Len(up) : up[i].id = "shadow_" \o b }

\* the stored collection holds exactly one shadow of b, with this name and prompt
OneShadowWith(up, b, name, prompt) ==
  /\ Cardinality(ShadowPositions(up, b)) = 1
  /\ \A i \in ShadowPositions(up, b) : up[i].name = name /\ up[i].prompt = prompt

\* C7 as stated: editPreset on a built-in id, tombstoned or not, never signals
\* Not-Found and leaves exactly one shadow record carrying the given name and
\* prompt.
C7_EditBuiltinAlwaysShadows ==
  \A b \in DefaultIds, in \in EditInputs :
    LET r == editPreset(user_presets, current_preset_id, b, in[1], in[2])
    IN  /\ r.outcome # "not_found"
        /\ OneShadowWith(r.user_presets, b, in[1], in[2])

\* C7 (amended): editPreset on a built-in without a tombstone leaves exactly
\* one shadow record carrying the given name and prompt, pushed at the end
\* when there was none and overwritten in place otherwise, and signals no
\* Not-Found; on a tombstoned built-in it signals Not-Found and leaves the
\* stored collection as it was.
C7_EditVisibleBuiltinShadows ==
  \A b \in DefaultIds, in \in EditInputs :
    LET r == editPreset(user_presets, current_preset_id, b, in[1], in[2])
        shadow == [id |-> "shadow_" \o b, name |-> in[1], prompt |-> in[2]]
    IN  IF HasTombstone(user_presets, b)
          THEN r.outcome = "not_found" /\ r.user_presets = user_presets
          ELSE /\ r.outcome = "updated"
               /\ OneShadowWith(r.user_presets, b, in[1], in[2])
               /\ IF HasShadow(user_presets, b)
                    THEN /\ Len(r.user_presets) = Len(user_presets)
                         /\ \A i \in 1..Len(user_presets) :
                              r.user_presets[i] =
                                IF i \in ShadowPositions(user_presets, b)
                                  THEN shadow ELSE user_presets[i]
                    ELSE r.user_presets = Append(user_presets, shadow)

\* one built-in carries the shadow an edit wrote, and the edit of another,
\* tombstoned one is refused
C7_Witness ==
  /\ \E b \in DefaultIds, in \in EditInputs :
       /\ ~HasTombstone(user_presets, b)
       /\ OneShadowWith(user_presets, b, in[1], in[2])
  /\ \E b \in DefaultIds, in \in EditInputs :
       /\ HasTombstone(user_presets, b)
       /\ editPreset(user_presets, current_preset_id, b, in[1], in[2]).outcome = "not_found"

\* C8: editPreset on an existing user preset rewrites the name and prompt of
\* the records with that id and nothing else: ids, positions, every other
\* record and current_preset_id stay; editing a built-in leaves
\* current_preset_id alone as well.
C8_EditInPlace ==
  /\ \A id \in UserIds(user_presets), in \in EditInputs :
       LET r == editPreset(user_presets, current_preset_id, id, in[1], in[2])
       IN  /\ r.outcome = "updated"
           /\ Len(r.user_presets) = Len(user_presets)
           /\ \A i \in 1..Len(user_presets) :
                r.user_presets[i] =
                  IF user_presets[i].id = id
                    THEN [id |-> id, name |-> in[1], prompt |-> in[2]]
                    ELSE user_presets[i]
           /\ r.current_preset_id = current_preset_id
  /\ \A b \in DefaultIds, in \in EditInputs :
       editPreset(user_presets, current_preset_id, b, in[1], in[2]).current_preset_id
         = current_preset_id

\* a selected user preset was edited: it carries the edit form's text, is not
\* the last record, and is still selected
C8_Witness ==
  \E i \in 1..Len(user_presets), in \in EditInputs :
    /\ IsUserRecord(user_presets[i])
    /\ user_presets[i].name = in[1]
    /\ user_presets[i].prompt = in[2]
    /\ i < Len(user_presets)
    /\ current_preset_id = user_presets[i].id

-----------------------------------------------------------------------------
(* Properties of deletePreset. *)

\* C9: deletePreset(id) signals Not-Found and changes nothing whenever id is
\* neither a built-in id nor the id of a user record (a record that is neither
\* shadow nor tombstone); deleting "deleted_X" or "shadow_X" removes nothing.
C9_NotFoundLeavesStore ==
  \A id \in IdInputs :
    (id \notin DefaultIds /\ id \notin UserIds(user_presets)) =>
      LET r == deletePreset(user_presets, current_preset_id, id)
      IN  /\ r.outcome = "not_found"
          /\ r.user_presets = user_presets
          /\ r.current_preset_id = current_preset_id

\* C10: deletePreset(id) of the selected preset (a built-in or a user preset)
\* leaves current_preset_id at the first entry of the list resolved afterwards,
\* or unset when that list is empty; deleting any other id leaves the pointer
\* as it was.
C10_DeleteRepairsPointer ==
  \A id \in IdInputs :
    LET r == deletePreset(user_presets, current_preset_id, id)
        after == getAllPresets(r.user_presets)
    IN  IF id = current_preset_id
          THEN (id \in DefaultIds \cup UserIds(user_presets)) =>
                 IF Len(after) > 0
                   THEN r.current_preset_id = after[1].id
                   ELSE r.current_preset_id = Undefined
          ELSE r.current_preset_id = current_preset_id

\* three built-ins are deleted, the fourth is selected, and deleting it
\* empties the resolved list and clears the pointer
C10_Witness ==
  /\ Cardinality({ b \in DefaultIds : HasTombstone(user_presets, b) }) = 3
  /\ current_preset_id \in DefaultIds
  /\ LET r == deletePreset(user_presets, current_preset_id, current_preset_id)
     IN  /\ getAllPresets(r.user_presets) = <<>>
         /\ r.current_preset_id = Undefined

-----------------------------------------------------------------------------
(* Properties of the toggle command. *)

\* the preset in effect: the one the pointer names, or the first entry when
\* the pointer is unset or names nothing in the list
EffectiveSelection(up, cur) ==
  IF cur \in Ids(getAllPresets(up)) THEN cur ELSE getAllPresets(up)[1].id

\* the pointer after each of n consecutive togglePreset calls
ToggleRun(up, cur, n) ==
  LET after[k \in 0..n] ==
        IF k = 0 THEN cur ELSE togglePreset(up, after[k - 1]).current_preset_id
  IN  [k \in 1..n |-> after[k]]

PointerAbsent(up, cur) == Truthy(cur) /\ cur \notin Ids(getAllPresets(up))

\* C11: with N >= 1 presets resolved and the pointer unset, on a listed preset
\* or on an absent id, N consecutive toggles bring the effective selection
\* back to where it was, and the N calls select N different entries.
C11_ToggleCycles ==
  LET N == Len(listPresets)
      run == ToggleRun(user_presets, current_preset_id, N)
  IN  N >= 1 =>
        /\ EffectiveSelection(user_presets, run[N])
             = EffectiveSelection(user_presets, current_preset_id)
        /\ Cardinality({ run[k] : k \in 1..N }) = N

\* C12: with the pointer on an id absent from the resolved list, toggle
\* selects the second entry (the only entry when there is one), as it does
\* with the pointer unset.
C12_AbsentPointerTogglesToSecond ==
  LET N == Len(listPresets)
      r == togglePreset(user_presets, current_preset_id)
  IN  (PointerAbsent(user_presets, current_preset_id) /\ N >= 1) =>
        /\ r.current_preset_id = listPresets[IF N = 1 THEN 1 ELSE 2].id
        /\ r.current_preset_id = togglePreset(user_presets, Undefined).current_preset_id

-----------------------------------------------------------------------------
(* Properties of the rewrite command.  Each one applies command to the     *)
(* state at hand, for the invocations it is about.                         *)

\* an invocation where the key is set, the capture returns the selection,
\* the endpoint answers with one text block and the copy and paste succeed
SmoothInput == Scenario(KeyPrefs, GoodCapture, "responds", GoodResponse, TRUE, TRUE)

Invoke(in) ==
  command(user_presets, current_preset_id, has_used_claude_api_key, clipboard, in)

FailureNotices(run) ==
  { i \in 1..Len(run.notices) : run.notices[i].style = "failure" }

NoKeyInputs ==
  { [in EXCEPT !.prefs.claudeApiKey = k] : in \in CommandInputs, k \in {"", Undefined} }

\* C14: an invocation with no API key ends in Failed on the missing-key
\* notice and has read and written no clipboard, sent no keystroke and no
\* request, and written nothing to storage; the flag is as it was.
C14_NoKeyNoActivity ==
  \A in \in NoKeyInputs :
    LET run == Invoke(in)
    IN  /\ run.state = "Failed"
        /\ Len(run.notices) = 1
        /\ run.notices[1].title = "Claude API Key Missing"
        /\ run.clipboardReads = 0
        /\ run.clipboardWrites = <<>>
        /\ run.clipboard = clipboard
        /\ run.keystrokes = <<>>
        /\ run.requests = <<>>
        /\ run.commits = <<>>
        /\ run.storageWrites = <<>>
        /\ run.has_used = has_used_claude_api_key

\* the flag is unset, the store has been changed, and the invocation without
\* a key stops on the missing-key notice
C14_Witness ==
  /\ has_used_claude_api_key = Undefined
  /\ user_presets # <<>>
  /\ Invoke(Scenario(NoKeyPrefs, GoodCapture, "responds", GoodResponse, TRUE, TRUE)).state
       = "Failed"

KeyInputs == { in \in CommandInputs : Truthy(in.prefs.claudeApiKey) }

\* C15: with a key, the invocation that finds the flag unset sets it, shows
\* the onboarding notice and stops before the capture and the request; one
\* that finds it set leaves it set and shows no onboarding notice; so the
\* notice has been shown once exactly when the flag is set, never twice.
C15_OnboardingOnce ==
  /\ onboardingShown = (IF Truthy(has_used_claude_api_key) THEN 1 ELSE 0)
  /\ \A in \in KeyInputs :
       LET run == Invoke(in)
       IN  IF ~Truthy(has_used_claude_api_key)
             THEN /\ run.state = "AwaitingFirstUse"
                  /\ run.has_used = "true"
                  /\ run.notices = <<OnboardingNotice>>
                  /\ run.clipboardReads = 0
                  /\ run.keystrokes = <<>>
                  /\ run.clipboard = clipboard
                  /\ run.requests = <<>>
             ELSE /\ run.state # "AwaitingFirstUse"
                  /\ run.has_used = "true"
                  /\ Onboardings(run) = 0

\* the gate has been passed once and a later invocation has rewritten text
C15_Witness ==
  /\ has_used_claude_api_key = "true"
  /\ onboardingShown = 1
  /\ clipboard = TextBlock.text

\* a captured text that is absent, empty or made of white space only
AbsentOrBlank(t) ==
  t = Null \/ \A i \in 1..Len(t) : SubSeq(t, i, i) \in {" ", "\n", "\t"}

\* C16: past the gate, when the captured text is absent, empty or white
\* space only, the invocation ends in NoSelection on the one notice saying
\* so, with no request, no commit (no clipboard write other than the
\* restoring one, no paste keystroke) and no storage write.
C16_NoSelectionNoAction ==
  \A in \in KeyInputs :
    LET run == Invoke(in)
    IN  (/\ Truthy(has_used_claude_api_key)
         /\ AbsentOrBlank(getSelectedText(clipboard, in.capture).text)) =>
          /\ run.state = "NoSelection"
          /\ Len(run.notices) = 1
          /\ run.notices[1].title = "No Text Selected"
          /\ run.requests = <<>>
          /\ run.commits = <<>>
          /\ \A i \in 1..Len(run.clipboardWrites) : run.clipboardWrites[i] = clipboard
          /\ \A i \in 1..Len(run.keystrokes) : run.keystrokes[i] # "v"
          /\ run.storageWrites = <<>>

\* past the gate, a selection of white space only ends in NoSelection
C16_Witness ==
  /\ Truthy(has_used_claude_api_key)
  /\ Invoke(Scenario(KeyPrefs, [selection |-> "  \n ", failAt |-> 0], "responds",
                     GoodResponse, TRUE, TRUE)).state = "NoSelection"

\* an invocation that gets as far as the response r
Answered(r, copyOk, pasteOk) ==
  Scenario(KeyPrefs, GoodCapture, "responds", r, copyOk, pasteOk)

\* the state in which an invocation gets as far as the request
ReadyToCall == Truthy(has_used_claude_api_key) /\ listPresets # <<>>

\* C17: on a non-2xx response the invocation ends in Failed with no commit
\* (clipboard as the capture left it, no paste), and its one failure notice
\* carries error.message of the body when there is one and the status text
\* otherwise, a body with no parsable error object included.
C17_ErrorNoticeCarriesUpstream ==
  ReadyToCall =>
    \A r \in ErrorResponses :
      LET run == Invoke(Answered(r, TRUE, TRUE))
          upstream == IF r.body.json = "object" /\ r.body.hasError
                         /\ Truthy(r.body.errorMessage)
                        THEN r.body.errorMessage
                        ELSE r.statusText
      IN  /\ run.state = "Failed"
          /\ run.commits = <<>>
          /\ run.clipboard = clipboard
          /\ \A i \in 1..Len(run.keystrokes) : run.keystrokes[i] # "v"
          /\ Cardinality(FailureNotices(run)) = 1
          /\ \A i \in FailureNotices(run) : indexOf(run.notices[i].message, upstream) # 0

\* the text of the first block of type "text", the placeholder without one
FirstTextBlock(blocks) ==
  LET texts == { i \in 1..Len(blocks) : blocks[i].type = "text" }
  IN  IF texts = {} THEN "No text returned from Claude"
      ELSE blocks[CHOOSE i \in texts : \A j \in texts : i <= j].text

\* C18: on a 2xx response whose content is a sequence of blocks, the text
\* committed is that of the first block of type "text" wherever it stands,
\* and the placeholder only when no block is of type "text".
C18_FirstTextBlockAnywhere ==
  ReadyToCall =>
    \A r \in SuccessResponses :
      (r.body.json = "object" /\ r.body.hasContent) =>
        Invoke(Answered(r, TRUE, TRUE)).commits = <<FirstTextBlock(r.body.blocks)>>

\* C19: on a 2xx response the invocation commits once whatever the payload
\* is (no content, empty content, blocks of other types, null, not an
\* object), with the placeholder when there is no text block.
C19_SuccessAlwaysCommits ==
  ReadyToCall =>
    \A r \in SuccessResponses, copyOk \in BOOLEAN, pasteOk \in BOOLEAN :
      r.body.json # "invalid" =>
        LET run == Invoke(Answered(r, copyOk, pasteOk))
        IN  /\ Len(run.commits) = 1
            /\ (\A i \in 1..Len(r.body.blocks) : r.body.blocks[i].type # "text")
                 => run.commits[1] = "No text returned from Claude"

\* C20: when the copy of the rewritten text succeeds and the paste keystroke
\* fails, the invocation ends in Done on the manual-paste notice, shows no
\* failure notice, and leaves the rewritten text on the clipboard.
C20_PasteFailureStillDone ==
  ReadyToCall =>
    \A r \in SuccessResponses :
      LET run == Invoke(Answered(r, TRUE, FALSE))
      IN  Len(run.commits) = 1 =>
            /\ run.state = "Done"
            /\ run.notices[Len(run.notices)] = ManualPasteNotice
            /\ FailureNotices(run) = {}
            /\ run.clipboard = run.commits[1]
            /\ \A i \in 1..Len(run.keystrokes) : run.keystrokes[i] # "v"

\* past the gate with a preset to use, a rewrite whose paste fails is Done
\* with the model's text on the clipboard
C20_Witness ==
  /\ ReadyToCall
  /\ LET run == Invoke(Answered(GoodResponse, TRUE, FALSE))
     IN  /\ run.state = "Done"
         /\ run.clipboard = TextBlock.text
         /\ run.clipboard # clipboard

\* an invocation with the preset selector and the custom prompt of the
\* preferences set
WithPromptPrefs(in, pp) ==
  [in EXCEPT !.prefs.promptPreset = pp[1], !.prefs.customPrompt = pp[2]]

\* settings of <<promptPreset, customPrompt>> that ask for different instructions
PromptPrefInputs ==
  { <<"formal", Undefined>>, <<"casual", Undefined>>,
    <<"custom", "Rewrite this as a limerick.">>,
    <<"custom", "Rewrite this as a telegram.">> }

\* C21: two invocations from the same state with the same selection and
\* the same other preferences, but different promptPreset / customPrompt,
\* send different user instructions to the endpoint.
C21_PromptPreferencesChangeRequest ==
  ReadyToCall =>
    \A a \in PromptPrefInputs, b \in PromptPrefInputs :
      a # b =>
        LET runA == Invoke(WithPromptPrefs(SmoothInput, a))
            runB == Invoke(WithPromptPrefs(SmoothInput, b))
        IN  /\ Len(runA.requests) = 1
            /\ Len(runB.requests) = 1
            /\ runA.requests[1].content # runB.requests[1].content

\* C22: on every path through the capture, those where a step after the
\* copy keystroke rejects and the result is absent included, the clipboard
\* at the return is the clipboard at the start; an invocation that commits
\* nothing leaves the clipboard as it found it.
C22_CapturePreservesClipboard ==
  /\ \A capture \in CaptureInputs :
       getSelectedText(clipboard, capture).clipboard = clipboard
  /\ \A in \in KeyInputs :
       LET run == Invoke(in)
       IN  run.commits = <<>> => run.clipboard = clipboard

-----------------------------------------------------------------------------
(* Properties of the store under failures and overlapping commands. *)

Stored(r) == <<r.user_presets, r.current_preset_id>>

\* C23: when one LocalStorage call of addPreset or deletePreset rejects, the
\* collection and the pointer are afterwards those from before the command,
\* or those the command leaves when no call rejects, never a mix of the
\* two.  (editPreset and togglePreset make one write each.)
C23_FailureLeavesBeforeOrAfter ==
  LET before == <<user_presets, current_preset_id>>
  IN  /\ \A presetId \in IdInputs, k \in 1..5 :
           Stored(deletePresetFailing(user_presets, current_preset_id, presetId, k))
             \in {before, Stored(deletePreset(user_presets, current_preset_id, presetId))}
      /\ \A in \in AddInputs, t \in ClockInputs, k \in 1..3 :
           Stored(addPresetFailing(user_presets, current_preset_id, in[1], in[2], t, k))
             \in {before, Stored(addPreset(user_presets, current_preset_id, in[1], in[2], t))}

\* the collection a store function leaves when run alone on collection up
Collection(m, up) == Mutation(m, up, Undefined).user_presets

BothDone == \A p \in Slots : inflight[p].pc = "done"

\* C24: of two store functions that both read user_presets before either
\* writes it, the one writing last leaves its own result on what both read,
\* so the other's update is lost; of two that do not overlap, the second
\* works on the result of the first and the collection reflects both.
C24_LostUpdateOnlyOnOverlap ==
  BothDone =>
    LET a == inflight[1]
        b == inflight[2]
    IN  IF b.mode = "after"
          THEN user_presets = Collection(b, Collection(a, a.snapshot))
          ELSE /\ b.snapshot = a.snapshot
               /\ user_presets = Collection(IF b.wroteLast THEN b ELSE a, a.snapshot)

\* two overlapping store functions have both returned without error, and
\* the collection is that of neither order of running them one after the
\* other: a record one of them added is not there
C24_Witness ==
  /\ BothDone
  /\ inflight[2].mode = "overlaps"
  /\ \A p \in Slots : inflight[p].outcome \in {"added", "updated", "deleted"}
  /\ LET a == inflight[1]
         b == inflight[2]
     IN  /\ user_presets # Collection(b, Collection(a, a.snapshot))
         /\ user_presets # Collection(a, Collection(b, a.snapshot))
         /\ a.op = "add"
         /\ "user_" \o ToString(a.t) \notin Ids(user_presets)

\* C25: with the commands run one at a time from the empty store, the
\* pointer is unset or names an entry of the resolved list.
C25_PointerNeverDangles ==
  ~PointerAbsent(user_presets, current_preset_id)

\* the first built-in has been deleted, a user record added, and the pointer
\* is on the first entry left, with the rewrite command past its gate and a
\* rewrite done
C25_Witness ==
  /\ HasTombstone(user_presets, DEFAULT_PRESETS[1].id)
  /\ UserIds(user_presets) # {}
  /\ current_preset_id = listPresets[1].id
  /\ Truthy(has_used_claude_api_key)
  /\ clipboard = TextBlock.text

====
